---- MODULE Spec2Model ----
(***************************************************************************)
(* The Observer/Subject notification base (ObserverPatternBase.py), the    *)
(* mediator tkViewManager (tkViewManager.py), the Model subject (model.py, *)
(* main.py DemoModel) and the wiring done by tkApp.__init__ and            *)
(* DemotkViewManager._CreateWidgets (tkApp.py, main.py).                   *)
(*                                                                         *)
(* Every public operation is one atomic action: the program is single      *)
(* threaded and every call runs to completion (or to the exception that    *)
(* leaves it) before the next one starts.  An action records which call    *)
(* was made (lastOp), the exception that left it (err, "none" when it      *)
(* returned) and the update and handler calls it made, in order (log).     *)
(***************************************************************************)
EXTENDS Integers, Sequences, FiniteSets

VARIABLES
  observers,  \* Subject._observers of each subject: a list, in attachment order
  subjects,   \* tkViewManager._subjects of the mediator: a dict, in insertion order
  count,      \* DemoModel._count
  lastOp,     \* the call last made, with its arguments
  err,        \* the exception that left it, "none" when it returned
  log,        \* the update calls, handler calls and update returns it made
  savePath,   \* tkApp._savePath: the path last opened or saved, empty at first
  fileTypes,  \* tkApp._fileTypes: the file types of the file dialogs
  persists,   \* whether the app's Model defines readModelFromFile/writeModelToFile
  disk,       \* the paths that are files
  is_started, \* DemoWidget._is_started of each widget
  lbl,        \* DemoWidget._lbl of each widget: the text on its button
  clicks,     \* how often each widget's button was clicked (history)
  menu_default, \* the dict that is the default of tkApp.__init__'s menu_dict
  menubar     \* each app's menu commands; none for an app not constructed

vars == <<observers, subjects, count, lastOp, err, log, savePath, fileTypes, persists, disk,
          is_started, lbl, clicks, menu_default, menubar>>

(* ----------------------------- bounds ---------------------------------- *)

\* Most observer entries held by all subjects together.
MaxAttached == 2

\* Largest value written to DemoModel.count.
MaxCount == 1

\* Most clicks of one button.
MaxClicks == 3

(* ----------------------------- objects --------------------------------- *)

\* Subjects that are tk widgets too (DemoWidget, TestWidget).
Widgets == {"w1", "w2"}

\* Subjects that are Models (DemoModel): Subject, not tk.Widget.
Models == {"mdl"}

Subjects == Widgets \cup Models

\* The mediator: a concrete tkViewManager (DemotkViewManager, TesttkViewManager).
Mediators == {"vm"}

\* "obs" is a bare Observer(): its update is the base class's.
Observers == Mediators \cup {"obs"}

\* What a caller may hand to attach/detach: an Observer, None, or a truthy
\* object that is no Observer.
ObserverArgs == Observers \cup {"None", "notObserver"}

\* Zero-argument callables handed to register_subject.
Handlers == {"handle_test_widget_update", "handle_demo_widget_update", "returns_none"}

HandlerArgs == Handlers \cup {"notCallable"}

\* Callables that change the observer list of widget w1 when called:
\* lambda: w1.detach(vm), lambda: w1.attach(vm), lambda: w1.attach(obs).
ReentrantHandlers == {"w1_detach_vm", "w1_attach_vm", "w1_attach_obs"}

\* callable(update_handler).
Callables == Handlers \cup ReentrantHandlers

SubjectArgs == Subjects \cup {"notSubject"}

(* ----------------------------- helpers --------------------------------- *)

Range(q) == {q[i] : i \in DOMAIN q}

\* Number of entries of q equal to x.
Occurrences(q, x) == Cardinality({i \in DOMAIN q : q[i] = x})

\* q without its entry at index i.
RemoveAt(q, i) == [j \in 1..(Len(q) - 1) |-> IF j < i THEN q[j] ELSE q[j + 1]]

\* list.remove(x) of a list that holds x: the first entry equal to x goes.
ListRemove(q, x) ==
  RemoveAt(q, CHOOSE i \in DOMAIN q : q[i] = x /\ \A j \in 1..(i - 1) : q[j] # x)

\* A dict is the sequence of its <<key, value>> items in insertion order.
Keys(d) == {d[i][1] : i \in DOMAIN d}

\* d[k] for a key k of d.
Lookup(d, k) == d[CHOOSE i \in DOMAIN d : d[i][1] = k][2]

\* d[k] = v gone wrong: the item is added whether or not the key is there.
SetItem_appends(d, k, v) == Append(d, <<k, v>>)

\* d[k] = v: a present key keeps its place, a new key goes last.
SetItem(d, k, v) ==
  IF k \in Keys(d)
    THEN [i \in DOMAIN d |-> IF d[i][1] = k THEN <<k, v>> ELSE d[i]]
    ELSE Append(d, <<k, v>>)

\* The exception that leaves st, and the calls logged so far.
Raise(st, x) == [st EXCEPT !.err = x]

Logged(st, e) == [st EXCEPT !.log = Append(@, e)]

Ok(st) == st.err = "none"

(* ------------------------ ObserverPatternBase.py ----------------------- *)

\* assert statements are executed (the interpreter's default mode): a failed
\* one leaves the call with AssertionError.

\* Observer.update gone wrong: the base class's body is empty and returns.
Observer_update_passes(st, o, s) ==
  Logged(Logged(st, <<"update", o, s>>), <<"return", o, s>>)

\* Observer.update: the base class raises NotImplementedError.
Observer_update(st, o, s) ==
  Raise(Logged(st, <<"update", o, s>>), "NotImplementedError")

\* Subject.attach gone wrong: an observer already in the list is not added
\* again.
Subject_attach_once(st, s, o) ==
  IF o = "None" THEN st
  ELSE IF o \notin Observers THEN Raise(st, "AssertionError")
  ELSE IF o \in Range(st.observers[s]) THEN st
  ELSE [st EXCEPT !.observers[s] = Append(@, o)]

\* Subject.attach: a falsy observer is skipped, a truthy one must be an
\* Observer and is appended.
Subject_attach(st, s, o) ==
  IF o = "None" THEN st
  ELSE IF o \notin Observers THEN Raise(st, "AssertionError")
  ELSE [st EXCEPT !.observers[s] = Append(@, o)]

\* Subject.detach gone wrong: every entry equal to the observer is removed.
Subject_detach_every(st, s, o) ==
  IF o = "None" THEN st
  ELSE IF o \notin Range(st.observers[s]) THEN Raise(st, "ValueError")
  ELSE [st EXCEPT !.observers[s] = SelectSeq(@, LAMBDA x : x # o)]

\* Subject.detach: a falsy observer is skipped; list.remove raises ValueError
\* when the observer is not in the list and removes its first entry otherwise.
Subject_detach(st, s, o) ==
  IF o = "None" THEN st
  ELSE IF o \notin Range(st.observers[s]) THEN Raise(st, "ValueError")
  ELSE [st EXCEPT !.observers[s] = ListRemove(@, o)]

(* --------------------------- tkViewManager.py -------------------------- *)

\* The body of a registered handler, called with no arguments.
\* TesttkViewManager.handle_test_widget_update raises NotImplementedError;
\* DemotkViewManager.handle_demo_widget_update calls self.getModel(), which no
\* class of the view manager defines.
CallHandler(st, h) ==
  LET called == Logged(st, <<"handler", h, <<>>>>)
  IN  CASE h = "handle_test_widget_update" -> Raise(called, "NotImplementedError")
        [] h = "handle_demo_widget_update" -> Raise(called, "AttributeError")
        [] h = "w1_detach_vm" -> Subject_detach(called, "w1", "vm")
        [] h = "w1_attach_vm" -> Subject_attach(called, "w1", "vm")
        [] h = "w1_attach_obs" -> Subject_attach(called, "w1", "obs")
        [] OTHER -> called

\* tkViewManager.update gone wrong: the handler of the first registered subject
\* is called, whichever subject notifies.
tkViewManager_update_first_handler(st, m, s) ==
  LET entered == Logged(st, <<"update", m, s>>)
  IN  IF s \notin Subjects THEN Raise(entered, "AssertionError")
      ELSE IF s \notin Keys(entered.subjects) THEN Raise(entered, "KeyError")
      ELSE LET done == CallHandler(entered, entered.subjects[1][2])
           IN  IF Ok(done) THEN Logged(done, <<"return", m, s>>) ELSE done

\* tkViewManager.update gone wrong: a subject that is no key is passed over
\* (self._subjects.get).
tkViewManager_update_missing_ignored(st, m, s) ==
  LET entered == Logged(st, <<"update", m, s>>)
  IN  IF s \notin Subjects THEN Raise(entered, "AssertionError")
      ELSE IF s \notin Keys(entered.subjects) THEN Logged(entered, <<"return", m, s>>)
      ELSE LET done == CallHandler(entered, Lookup(entered.subjects, s))
           IN  IF Ok(done) THEN Logged(done, <<"return", m, s>>) ELSE done

\* tkViewManager.update: look the notifying subject up and call its handler.
tkViewManager_update(st, m, s) ==
  LET entered == Logged(st, <<"update", m, s>>)
  IN  IF s \notin Subjects THEN Raise(entered, "AssertionError")
      ELSE IF s \notin Keys(entered.subjects) THEN Raise(entered, "KeyError")
      ELSE LET done == CallHandler(entered, Lookup(entered.subjects, s))
           IN  IF Ok(done) THEN Logged(done, <<"return", m, s>>) ELSE done

\* o.update(s), dispatched on the class of o.
Update(st, o, s) ==
  IF o \in Mediators THEN tkViewManager_update(st, o, s) ELSE Observer_update(st, o, s)

\* The for loop of notify, at index i of w1's list, never ends: every entry
\* from i on is the mediator and its handler for w1 appends the mediator to
\* w1's list, so each update adds one entry behind the one it consumes.
Diverges(st, s, i) ==
  /\ s = "w1"
  /\ i <= Len(st.observers[s])
  /\ \A j \in i..Len(st.observers[s]) : st.observers[s][j] = "vm"
  /\ s \in Keys(st.subjects)
  /\ Lookup(st.subjects, s) = "w1_attach_vm"

\* Subject.notify: the for loop over self._observers (the list itself, as it
\* is when the loop gets to index i) from index i on; the first update that
\* raises ends it. A loop that never ends is marked never_returns.
RECURSIVE NotifyFrom(_, _, _)
NotifyFrom(st, s, i) ==
  IF i > Len(st.observers[s]) THEN st
  ELSE IF Diverges(st, s, i) THEN Raise(st, "never_returns")
  ELSE LET st2 == Update(st, st.observers[s][i], s)
       IN  IF Ok(st2) THEN NotifyFrom(st2, s, i + 1) ELSE st2

\* Subject.notify gone wrong: the observers are called last attached first.
RECURSIVE NotifyDownFrom(_, _, _)
NotifyDownFrom(st, s, i) ==
  IF i < 1 THEN st
  ELSE LET st2 == Update(st, st.observers[s][i], s)
       IN  IF Ok(st2) THEN NotifyDownFrom(st2, s, i - 1) ELSE st2

Subject_notify_reversed(st, s) == NotifyDownFrom(st, s, Len(st.observers[s]))

\* Subject.notify gone wrong: an update that raises is passed over (try /
\* except around o.update) and the loop goes on; the first error is kept.
RECURSIVE NotifyOnFrom(_, _, _, _)
NotifyOnFrom(st, s, i, e) ==
  IF i > Len(st.observers[s]) THEN [st EXCEPT !.err = e]
  ELSE LET st2 == Update([st EXCEPT !.err = "none"], st.observers[s][i], s)
       IN  NotifyOnFrom(st2, s, i + 1, IF e = "none" THEN st2.err ELSE e)

Subject_notify_goes_on(st, s) == NotifyOnFrom(st, s, 1, "none")

Subject_notify(st, s) == NotifyFrom(st, s, 1)

\* tkViewManager.register_subject gone wrong: the checks pass and the handler
\* is stored nowhere.
tkViewManager_register_subject_not_stored(st, s, h) ==
  IF s \notin Subjects THEN Raise(st, "AssertionError")
  ELSE IF s \notin Widgets THEN Raise(st, "AssertionError")
  ELSE IF h \notin Callables THEN Raise(st, "AssertionError")
  ELSE st

\* tkViewManager.register_subject gone wrong: the handler is stored before it
\* is checked to be callable.
tkViewManager_register_subject_store_first(st, s, h) ==
  IF s \notin Subjects THEN Raise(st, "AssertionError")
  ELSE IF s \notin Widgets THEN Raise(st, "AssertionError")
  ELSE LET stored == [st EXCEPT !.subjects = SetItem(@, s, h)]
       IN  IF h \notin Callables THEN Raise(stored, "AssertionError") ELSE stored

\* tkViewManager.register_subject.
tkViewManager_register_subject(st, s, h) ==
  IF s \notin Subjects THEN Raise(st, "AssertionError")
  ELSE IF s \notin Widgets THEN Raise(st, "AssertionError")
  ELSE IF h \notin Callables THEN Raise(st, "AssertionError")
  ELSE [st EXCEPT !.subjects = SetItem(@, s, h)]

\* tkViewManager._detach_from_subjects gone wrong: the loop ends after the
\* first registered subject.
tkViewManager__detach_from_subjects_first_only(st, m) ==
  IF st.subjects = <<>> THEN st ELSE Subject_detach(st, st.subjects[1][1], m)

\* tkViewManager._detach_from_subjects: the for loop over the dict's keys from
\* item i on; the first detach that raises ends it.
RECURSIVE DetachFrom(_, _, _)
DetachFrom(st, m, i) ==
  IF i > Len(st.subjects) THEN st
  ELSE LET st2 == Subject_detach(st, st.subjects[i][1], m)
       IN  IF Ok(st2) THEN DetachFrom(st2, m, i + 1) ELSE st2

\* tkViewManager._detach_from_subjects gone wrong: the mapping is emptied
\* once the loop is through (self._subjects.clear()).
tkViewManager__detach_from_subjects_clears(st, m) ==
  LET done == DetachFrom(st, m, 1)
  IN  IF Ok(done) THEN [done EXCEPT !.subjects = <<>>] ELSE done

tkViewManager__detach_from_subjects(st, m) == DetachFrom(st, m, 1)

\* tkViewManager.onDestroy.
tkViewManager_onDestroy(st, m) == tkViewManager__detach_from_subjects(st, m)

\* tkViewManager._CreateWidgets: the base class raises NotImplementedError.
tkViewManager__CreateWidgets(st) == Raise(st, "NotImplementedError")

\* tkViewManager.__init__ of the base class itself: the new object's empty
\* _subjects is set, then _CreateWidgets is called; the exception leaves the
\* constructor and the object is never bound.
tkViewManager___init__(st) == tkViewManager__CreateWidgets(st)

(* ------------------------------- main.py ------------------------------- *)

\* DemoModel.count setter: store, then notify.
DemoModel_count(st, value) ==
  Subject_notify([st EXCEPT !.count = value], "mdl")

\* DemoWidget.OnButtonClicked: flip the started state and the button's text,
\* then notify.
DemoWidget_OnButtonClicked(st, dw) ==
  LET flipped == IF st.is_started[dw]
                   THEN [st EXCEPT !.is_started[dw] = FALSE, !.lbl[dw] = "Start"]
                   ELSE [st EXCEPT !.is_started[dw] = TRUE, !.lbl[dw] = "Stop"]
  IN  Subject_notify(flipped, dw)

\* DemotkViewManager._CreateWidgets gone wrong: dw.attach(self) is left out.
DemotkViewManager__CreateWidgets_no_attach(st, m, dw) ==
  tkViewManager_register_subject(st, dw, "handle_demo_widget_update")

\* DemotkViewManager._CreateWidgets with dw the widget it creates.
DemotkViewManager__CreateWidgets(st, m, dw) ==
  LET attached == Subject_attach(st, dw, m)
  IN  IF Ok(attached)
        THEN tkViewManager_register_subject(attached, dw, "handle_demo_widget_update")
        ELSE attached

(* ------------------------------- tkApp.py ------------------------------ *)

\* The tkApp instances of one process; the demo application is the first.
Apps == {"app1", "app2", "app3"}

DemoApp == "app1"

\* A menu dict is the set of its commands <<menu, label, app>>, the command's
\* handler being the method of app that tkApp.__init__ binds to the label.
\* The File and Help menus with the handlers of app a:
DefaultCommands(a) ==
  {<<"File", "Open...", a>>, <<"File", "Save", a>>, <<"File", "Save As...", a>>,
   <<"File", "Exit", a>>, <<"Help", "About...", a>>}

\* A menu dict of the caller's own, naming a handler of app a.
CustomCommands(a) == {<<"File", "Exit", a>>}

\* How menu_dict is passed: left out, a new empty dict, a dict of the caller.
MenuArgs == {"default", "empty", "custom"}

\* tkApp.__init__, the menubar: menu_dict left out is the one dict made when
\* the def statement ran; an empty menu_dict is filled, in place, with the
\* File and Help commands bound to self; the menubar is built from the dict.
tkApp___init___menubar(st, a, arg) ==
  LET menu_dict == CASE arg = "default" -> st.menu_default
                     [] arg = "empty" -> {}
                     [] OTHER -> CustomCommands(a)
      filled == IF menu_dict = {} THEN DefaultCommands(a) ELSE menu_dict
  IN  [st EXCEPT !.menubar[a] = filled,
                 !.menu_default = IF arg = "default" THEN filled ELSE @]

\* tkApp._createModel of the base class.
tkApp__createModel(st) == Raise(st, "NotImplementedError")

\* tkApp.__init__ of a DemotkApp, from the model's creation on: the view
\* manager is built (and builds its widget dw), then attached to the new
\* model.
tkApp___init__(st, m, dw) ==
  LET built == DemotkViewManager__CreateWidgets(st, m, dw)
  IN  IF Ok(built) THEN Subject_attach(built, "mdl", m) ELSE built

\* DemotkApp(parent), all of it: the menubar, menu_dict left out, then the
\* model and the view manager.
DemotkApp___init__(st, m, dw) ==
  tkApp___init__(tkApp___init___menubar(st, DemoApp, "default"), m, dw)

\* A path is its root and its extension; the empty string is <<>>.
Paths == {<<"a", ".txt">>, <<"b", ".dat">>}

\* What a file dialog returns: the path chosen, or the empty string when the
\* user cancels.
Responses == Paths \cup {<<>>}

\* os.path.splitext(path)[1].
splitext_1(path) == path[2]

\* file_types as DemotkApp passes it, and tkApp.__init__'s default.
DemoFileTypes == << <<"Text file", "*.txt">> >>

DefaultFileTypes == <<>>

\* open(path, mode): reading needs the file to be there, writing creates it;
\* the empty path names no file.
open(st, path, mode) ==
  IF path = <<>> THEN Raise(st, "FileNotFoundError")
  ELSE IF mode = "r" /\ path \notin st.disk THEN Raise(st, "FileNotFoundError")
  ELSE Logged([st EXCEPT !.disk = IF mode = "w" THEN @ \cup {path} ELSE @],
              <<"open", path, mode>>)

\* self._model.readModelFromFile(f, ext) and self._model.writeModelToFile(f,
\* ext): Model defines neither, a concrete model has to.
Model_readModelFromFile(st, path) ==
  IF st.persists THEN Logged(st, <<"readModelFromFile", path, splitext_1(path)>>)
  ELSE Raise(st, "AttributeError")

Model_writeModelToFile(st, path) ==
  IF st.persists THEN Logged(st, <<"writeModelToFile", path, splitext_1(path)>>)
  ELSE Raise(st, "AttributeError")

\* self._fileTypes[0][1], the dialogs' defaultextension argument.
DefaultExtension(st) ==
  IF Len(st.fileTypes) = 0 THEN Raise(st, "IndexError") ELSE st

\* tkApp.onFileOpen, the dialog answering response.
tkApp_onFileOpen(st, response) ==
  LET asked == DefaultExtension(st)
  IN  IF ~Ok(asked) THEN asked
      ELSE IF Len(response) > 0
        THEN LET opened == open(asked, response, "r")
                 read == Model_readModelFromFile(opened, response)
             IN  IF ~Ok(opened) THEN opened
                 ELSE IF ~Ok(read) THEN read
                 ELSE [read EXCEPT !.savePath = response]
        ELSE asked

\* tkApp.onFileSave.
tkApp_onFileSave(st) ==
  IF Len(st.savePath) = 0
    THEN LET opened == open(st, st.savePath, "w")
         IN  IF ~Ok(opened) THEN opened ELSE Model_writeModelToFile(opened, st.savePath)
    ELSE st

\* tkApp.onFileSaveAs, the dialog answering response.
tkApp_onFileSaveAs(st, response) ==
  LET asked == DefaultExtension(st)
  IN  IF ~Ok(asked) THEN asked
      ELSE IF Len(response) > 0
        THEN LET opened == open(asked, response, "w")
                 written == Model_writeModelToFile(opened, response)
             IN  IF ~Ok(opened) THEN opened
                 ELSE IF ~Ok(written) THEN written
                 ELSE [written EXCEPT !.savePath = response]
        ELSE asked

(* ------------------------------ the machine ---------------------------- *)

\* The program's state as the operators above take it, before a call.
Now == [observers |-> observers, subjects |-> subjects, count |-> count,
        err |-> "none", log |-> <<>>,
        savePath |-> savePath, fileTypes |-> fileTypes, persists |-> persists,
        disk |-> disk, is_started |-> is_started, lbl |-> lbl, clicks |-> clicks,
        menu_default |-> menu_default, menubar |-> menubar]

\* A call is made only by a program that is running: one whose notify never
\* returns makes no further call.
Running == err # "never_returns"

\* The call op made, leaving the program in st.
Becomes(st, op) ==
  /\ Running
  /\ observers' = st.observers
  /\ subjects' = st.subjects
  /\ count' = st.count
  /\ err' = st.err
  /\ log' = st.log
  /\ lastOp' = op
  /\ savePath' = st.savePath
  /\ fileTypes' = st.fileTypes
  /\ persists' = st.persists
  /\ disk' = st.disk
  /\ is_started' = st.is_started
  /\ lbl' = st.lbl
  /\ clicks' = st.clicks
  /\ menu_default' = st.menu_default
  /\ menubar' = st.menubar

TotalAttached == Len(observers["w1"]) + Len(observers["w2"]) + Len(observers["mdl"])

\* A subject as its constructor leaves it, known to no view manager.
Fresh(s) ==
  /\ observers[s] = <<>>
  /\ s \notin Keys(subjects)
  /\ s \in Models => count = 0

\* Subjects, mediator and model as their constructors leave them.
InitObjects ==
  /\ observers = [s \in Subjects |-> <<>>]
  /\ subjects = <<>>
  /\ count = 0
  /\ lastOp = <<"init">>
  /\ err = "none"
  /\ log = <<>>
  /\ is_started = [w \in Widgets |-> FALSE]
  /\ lbl = [w \in Widgets |-> "Start"]
  /\ clicks = [w \in Widgets |-> 0]
  /\ menu_default = {}
  /\ menubar = [a \in Apps |-> {}]

\* The demo application: DemotkApp's file types, DemoModel (which defines no
\* file methods), nothing saved.
Init ==
  /\ InitObjects
  /\ savePath = <<>>
  /\ fileTypes = DemoFileTypes
  /\ persists = FALSE
  /\ disk = {}

attach(s, o) ==
  /\ o \in Observers => TotalAttached < MaxAttached
  /\ Becomes(Subject_attach(Now, s, o), <<"attach", s, o>>)

detach(s, o) ==
  /\ s \in Subjects
  /\ Becomes(Subject_detach(Now, s, o), <<"detach", s, o>>)

notify(s) ==
  /\ s \in Subjects
  /\ Becomes(Subject_notify(Now, s), <<"notify", s>>)

update(m, s) ==
  /\ m \in Mediators
  /\ Becomes(tkViewManager_update(Now, m, s), <<"update", m, s>>)

register_subject(m, s, h) ==
  /\ m \in Mediators
  /\ Becomes(tkViewManager_register_subject(Now, s, h), <<"register_subject", m, s, h>>)

_detach_from_subjects(m) ==
  /\ m \in Mediators
  /\ Becomes(tkViewManager__detach_from_subjects(Now, m), <<"_detach_from_subjects", m>>)

onDestroy(m) ==
  /\ m \in Mediators
  /\ Becomes(tkViewManager_onDestroy(Now, m), <<"onDestroy", m>>)

count_setter(value) ==
  /\ value \in 0..MaxCount
  /\ Becomes(DemoModel_count(Now, value), <<"count", value>>)

_CreateWidgets(m, dw) ==
  /\ Fresh(dw)
  /\ TotalAttached < MaxAttached
  /\ Becomes(DemotkViewManager__CreateWidgets(Now, m, dw), <<"_CreateWidgets", m, dw>>)

DemotkApp(m, dw) ==
  /\ Fresh(dw) /\ Fresh("mdl") /\ subjects = <<>>
  /\ TotalAttached + 2 <= MaxAttached
  /\ Becomes(tkApp___init__(Now, m, dw), <<"DemotkApp", m, dw>>)

\* o.update(s) called on a bare Observer.
Observer_update_call(o, s) ==
  /\ o \in Observers \ Mediators
  /\ Becomes(Observer_update(Now, o, s), <<"Observer_update", o, s>>)

\* tkViewManager(parent): the base class constructed as it is.
tkViewManager_new ==
  /\ Becomes(tkViewManager___init__(Now), <<"tkViewManager">>)

Next ==
  \/ \E s \in Subjects, o \in ObserverArgs : attach(s, o)
  \/ \E s \in Subjects, o \in ObserverArgs : detach(s, o)
  \/ \E s \in Subjects : notify(s)
  \/ \E m \in Mediators, s \in Subjects : update(m, s)
  \/ \E m \in Mediators, s \in SubjectArgs, h \in HandlerArgs : register_subject(m, s, h)
  \/ \E m \in Mediators : _detach_from_subjects(m)
  \/ \E m \in Mediators : onDestroy(m)
  \/ \E value \in 0..MaxCount : count_setter(value)
  \/ \E m \in Mediators, dw \in Widgets : _CreateWidgets(m, dw)
  \/ \E m \in Mediators, dw \in Widgets : DemotkApp(m, dw)
  \/ \E o \in Observers \ Mediators, s \in Subjects : Observer_update_call(o, s)
  \/ tkViewManager_new

Spec == Init /\ [][Next]_vars

(* ------------------- handlers that attach and detach ------------------- *)

\* register_subject with a handler that attaches or detaches.
register_reentrant(m, s, h) ==
  /\ h \in ReentrantHandlers
  /\ s \notin Keys(subjects)
  /\ register_subject(m, s, h)

\* notify, while the lists its handlers leave stay within the bound.
notify_reentrant(s) ==
  /\ Len(Subject_notify(Now, s).observers["w1"]) <= 2 * MaxAttached
  /\ notify(s)

NextReentrant ==
  \/ \E s \in Widgets, o \in Observers : attach(s, o)
  \/ \E s \in Widgets, o \in Observers : detach(s, o)
  \/ \E m \in Mediators, s \in Widgets, h \in ReentrantHandlers : register_reentrant(m, s, h)
  \/ \E s \in Widgets : notify_reentrant(s)

SpecReentrant == Init /\ [][NextReentrant]_vars

(* --------------------------- the demo application ---------------------- *)

\* DemotkApp(root) with its menubar. (The action DemotkApp above follows the
\* constructor from the model's creation on, which is where the observer
\* lists and the mapping come in.)
DemotkApp_new(m, dw) ==
  /\ Fresh(dw) /\ Fresh("mdl") /\ subjects = <<>>
  /\ menubar[DemoApp] = {}
  /\ TotalAttached + 2 <= MaxAttached
  /\ Becomes(DemotkApp___init__(Now, m, dw), <<"DemotkApp", m, dw>>)

\* A click on the button of the demo widget the view manager created.
OnButtonClicked(dw) ==
  /\ dw \in Keys(subjects)
  /\ clicks[dw] < MaxClicks
  /\ Becomes(DemoWidget_OnButtonClicked([Now EXCEPT !.clicks[dw] = @ + 1], dw),
             <<"OnButtonClicked", dw>>)

(* ----------------------- the File menu of a tkApp ---------------------- *)

\* Any tkApp: with or without file types, over a model with or without the
\* file methods, whatever files exist.
InitFile ==
  /\ InitObjects
  /\ savePath = <<>>
  /\ fileTypes \in {DefaultFileTypes, DemoFileTypes}
  /\ persists \in BOOLEAN
  /\ disk \in SUBSET Paths

onFileOpen(response) ==
  /\ response \in Responses
  /\ Becomes(tkApp_onFileOpen(Now, response), <<"onFileOpen", response>>)

onFileSave ==
  /\ Becomes(tkApp_onFileSave(Now), <<"onFileSave">>)

onFileSaveAs(response) ==
  /\ response \in Responses
  /\ Becomes(tkApp_onFileSaveAs(Now, response), <<"onFileSaveAs", response>>)

NextFile ==
  \/ \E response \in Responses : onFileOpen(response)
  \/ onFileSave
  \/ \E response \in Responses : onFileSaveAs(response)

SpecFile == InitFile /\ [][NextFile]_vars

(* --------------------------- registering again ------------------------- *)

\* register_subject for a subject the mediator has a handler for already.
reregister(m, s, h) ==
  /\ s \in Keys(subjects)
  /\ register_subject(m, s, h)

\* The mediator of the demo: its widgets are made and registered by
\* _CreateWidgets, and registered again under other handlers.
NextReregister ==
  \/ \E m \in Mediators, dw \in Widgets : _CreateWidgets(m, dw)
  \/ \E m \in Mediators, s \in Widgets, h \in HandlerArgs : reregister(m, s, h)
  \/ \E s \in Widgets, o \in Observers : attach(s, o)
  \/ \E s \in Widgets, o \in Observers : detach(s, o)
  \/ \E s \in Widgets : notify(s)
  \/ \E m \in Mediators, s \in Widgets : update(m, s)
  \/ \E m \in Mediators : _detach_from_subjects(m)

SpecReregister == Init /\ [][NextReregister]_vars

(* ------------------------ several apps, one process ------------------- *)

\* tkApp(parent, ...) for a new app a. The base class sets the menubar up and
\* fails in _createModel; a concrete child goes on to create a model and a
\* view manager of its own, which are new objects.
tkApp_new(a, arg, concrete) ==
  /\ menubar[a] = {}
  /\ LET menus == tkApp___init___menubar(Now, a, arg)
     IN  Becomes(IF concrete THEN menus ELSE tkApp__createModel(menus),
                 <<"tkApp", a, arg, concrete>>)

NextMenu ==
  \/ \E a \in Apps, arg \in MenuArgs, concrete \in BOOLEAN : tkApp_new(a, arg, concrete)

SpecMenu == Init /\ [][NextMenu]_vars

\* What the user of the demo application does: start it, click the button,
\* choose from the File menu.
NextDemo ==
  \/ \E m \in Mediators, dw \in Widgets : DemotkApp_new(m, dw)
  \/ \E dw \in Widgets : OnButtonClicked(dw)
  \/ \E response \in Responses : onFileOpen(response)
  \/ onFileSave
  \/ \E response \in Responses : onFileSaveAs(response)

SpecDemo == Init /\ [][NextDemo]_vars

(* ------------------------------- claims -------------------------------- *)

\* The update calls and the handler calls of a log, in order.
UpdateCalls(l) == SelectSeq(l, LAMBDA e : e[1] = "update")

HandlerCalls(l) == SelectSeq(l, LAMBDA e : e[1] = "handler")

\* The mediator is one of subject s's observers.
Observes(m, s) == m \in Range(observers[s])

\* C1, as stated: after register_subject(subject, handler) returns, the
\* mediator is in subject's observer list and handler is recorded under
\* subject, whether or not the caller attached the mediator.
C1_RegisterAttachesAndRecords ==
  (lastOp[1] = "register_subject" /\ err = "none")
    => /\ Observes(lastOp[2], lastOp[3])
       /\ lastOp[3] \in Keys(subjects)
       /\ Lookup(subjects, lastOp[3]) = lastOp[4]

\* C1, amended: register_subject(subject, handler) that returns has recorded
\* handler under subject, kept every other entry of the mapping, and changed
\* no observer list: the mediator observes subject only if a caller attached it.
C1_RegisterOnlyRecords ==
  [][(lastOp'[1] = "register_subject" /\ err' = "none")
       => /\ Keys(subjects') = Keys(subjects) \cup {lastOp'[3]}
          /\ Lookup(subjects', lastOp'[3]) = lastOp'[4]
          /\ \A k \in Keys(subjects) \ {lastOp'[3]} :
               Lookup(subjects', k) = Lookup(subjects, k)
          /\ observers' = observers]_vars

\* C1's case: a registration that returned for a subject the mediator was
\* never attached to.
C1_Witness ==
  /\ lastOp[1] = "register_subject" /\ err = "none"
  /\ lastOp[3] \in Keys(subjects)
  /\ ~Observes(lastOp[2], lastOp[3])

\* C2, as stated: every subject that is a key of the mediator's mapping has
\* the mediator in its observer list, in every reachable state.
C2_KeysAreObserved ==
  \A m \in Mediators : \A s \in Keys(subjects) : Observes(m, s)

\* A call that may leave a key of the mapping unobserved: register_subject of
\* a subject the mediator is not attached to, detach of the mediator, teardown.
C2_Unpaired ==
  \/ /\ lastOp'[1] = "register_subject"
     /\ lastOp'[3] \in Subjects
     /\ ~Observes(lastOp'[2], lastOp'[3])
  \/ lastOp'[1] = "detach" /\ lastOp'[3] \in Mediators
  \/ lastOp'[1] \in {"_detach_from_subjects", "onDestroy"}

\* C2, amended: while every key of the mapping has the mediator in its
\* observer list, every call keeps it so except register_subject of a subject
\* the mediator is not attached to, detach of the mediator, and teardown
\* (which detaches and keeps the keys).
C2_KeysStayObserved ==
  [][(C2_KeysAreObserved /\ ~C2_Unpaired) => C2_KeysAreObserved']_vars

\* C2's case: a subject registered after the mediator was attached to it, and
\* then notified.
C2_Witness ==
  /\ lastOp[1] = "notify"
  /\ lastOp[2] \in Keys(subjects)
  /\ C2_KeysAreObserved

\* C3: mediator.update(s) for a registered subject s calls the handler
\* registered for s once, with no arguments, and no other handler; what the
\* handler raises leaves update. The same holds of each update(s) that
\* notify(s) makes on the mediator.
C3_UpdateCallsItsHandler ==
  /\ (lastOp[1] = "update" /\ lastOp[3] \in Keys(subjects))
       => /\ HandlerCalls(log) = << <<"handler", Lookup(subjects, lastOp[3]), <<>> >> >>
          /\ Lookup(subjects, lastOp[3]) = "returns_none" => err = "none"
          /\ Lookup(subjects, lastOp[3]) = "handle_test_widget_update"
               => err = "NotImplementedError"
          /\ Lookup(subjects, lastOp[3]) = "handle_demo_widget_update"
               => err = "AttributeError"
  /\ (lastOp[1] = "notify" /\ lastOp[2] \in Keys(subjects))
       => /\ \A i \in DOMAIN HandlerCalls(log) :
               HandlerCalls(log)[i] = <<"handler", Lookup(subjects, lastOp[2]), <<>> >>
          /\ Len(HandlerCalls(log)) =
               Len(SelectSeq(UpdateCalls(log), LAMBDA e : e[2] \in Mediators))

\* C3's case: update(s) with two subjects registered under different handlers.
C3_Witness ==
  /\ lastOp[1] = "update"
  /\ Keys(subjects) = Widgets
  /\ Lookup(subjects, "w1") # Lookup(subjects, "w2")
  /\ lastOp[3] = subjects[2][1]
  /\ Len(HandlerCalls(log)) = 1

\* The last call was the mediator's teardown, by either entry point.
Teardown(op) == op[1] \in {"_detach_from_subjects", "onDestroy"}

\* C4, as stated: a Model mutator that stores a field and then notifies, with
\* a mediator attached to the model as tkApp.__init__ attaches it, has the
\* mediator's handler for the model called after the store, and the
\* notification returns without error.
C4_ModelHandlerSeesNewCount ==
  (lastOp[1] = "count" /\ \E m \in Mediators : Observes(m, "mdl"))
    => /\ err = "none"
       /\ count = lastOp[2]
       /\ Len(HandlerCalls(log)) >= 1

\* C5, as stated: after teardown no subject registered with the mediator has
\* the mediator in its observer list, however often it had been attached.
C5_TeardownDetachesAll ==
  Teardown(lastOp) => \A s \in Keys(subjects) : ~Observes(lastOp[2], s)

\* C5, amended: teardown removes one entry per registered subject. When the
\* mediator is in each registered subject's observer list exactly once,
\* teardown returns and leaves none of those lists holding the mediator, and
\* changes no other list; and a notify of a subject whose list does not hold
\* the mediator makes no update call on it.
C5_TeardownDetachesOnce ==
  [][/\ (/\ Teardown(lastOp')
         /\ \A s \in Keys(subjects) : Occurrences(observers[s], lastOp'[2]) = 1)
       => /\ err' = "none"
          /\ \A s \in Keys(subjects) : lastOp'[2] \notin Range(observers'[s])
          /\ \A s \in Subjects \ Keys(subjects) : observers'[s] = observers[s]
     /\ \A m \in Mediators :
          (lastOp'[1] = "notify" /\ m \notin Range(observers[lastOp'[2]]))
            => \A i \in DOMAIN log' : log'[i][2] # m]_vars

\* C5's case: a teardown that returned, with two subjects registered and the
\* mediator no longer in their lists.
C5_Witness ==
  /\ Teardown(lastOp) /\ err = "none"
  /\ Keys(subjects) = Widgets
  /\ \A s \in Keys(subjects) : ~Observes(lastOp[2], s)

\* C6, as stated: once onDestroy has torn the mediator down, no subject at
\* all, the application's model included, has it in its observer list. Stated
\* of a mediator used as _CreateWidgets uses it: every widget holding it holds
\* it once and is registered.
C6_NoSubjectHoldsDestroyed ==
  [][(/\ lastOp'[1] = "onDestroy" /\ err' = "none"
      /\ \A w \in Widgets :
           Observes(lastOp'[2], w)
             => w \in Keys(subjects) /\ Occurrences(observers[w], lastOp'[2]) = 1)
       => \A s \in Subjects : lastOp'[2] \notin Range(observers'[s])]_vars

\* C7, as stated: a teardown that follows a teardown which detached the
\* mediator from every registered subject raises nothing and changes no
\* observer list and no mapping.
C7_SecondTeardownIsNoOp ==
  [][(/\ Teardown(lastOp) /\ err = "none"
      /\ \A s \in Keys(subjects) : ~Observes(lastOp[2], s)
      /\ Teardown(lastOp') /\ lastOp'[2] = lastOp[2])
       => /\ err' = "none"
          /\ observers' = observers
          /\ subjects' = subjects]_vars

\* The last call ran Subject.notify: notify itself, or the count setter.
Notified(op) == op[1] \in {"notify", "count"}

\* The subject that call notified.
NotifiedSubject(op) == IF op[1] = "notify" THEN op[2] ELSE "mdl"

\* attach(o) appends: the list is one longer and ends with o.
C8_AttachAppends ==
  (lastOp'[1] = "attach" /\ lastOp'[3] \in Observers)
    => /\ Len(observers'[lastOp'[2]]) = Len(observers[lastOp'[2]]) + 1
       /\ Occurrences(observers'[lastOp'[2]], lastOp'[3])
            = Occurrences(observers[lastOp'[2]], lastOp'[3]) + 1

\* Every subject starts with no observer.
C8_CreatedEmpty == \A s \in Subjects : observers[s] = <<>>

C9_NotifyInAttachmentOrder ==
  Notified(lastOp)
    => LET s == NotifiedSubject(lastOp)
       IN  /\ Len(UpdateCalls(log)) <= Len(observers[s])
           /\ \A i \in DOMAIN UpdateCalls(log) :
                UpdateCalls(log)[i] = <<"update", observers[s][i], s>>
           /\ \A p, q \in DOMAIN log :
                (p < q /\ log[p][1] = "update" /\ log[q][1] = "update")
                  => \E r \in (p + 1)..(q - 1) : log[r] = <<"return", log[p][2], s>>

\* C9's case: two different observers attached to a subject, and a notify
\* that called both.
C9_Witness ==
  /\ lastOp[1] = "notify"
  /\ observers[lastOp[2]] = <<"vm", "obs">>
  /\ Len(UpdateCalls(log)) = 2

\* C10, as stated: after detach(o) the observer list does not contain o,
\* whatever attach calls came before.
C10_DetachedObserverIsGone ==
  (lastOp[1] = "detach" /\ err = "none" /\ lastOp[3] \in Observers)
    => lastOp[3] \notin Range(observers[lastOp[2]])

\* C10, amended: detach(o) that returns has removed the first entry of o and
\* nothing else, so the list does not contain o when o was in it once, and
\* holds one entry of o less otherwise; a notify of a subject whose list does
\* not contain o makes no update call on o.
C10_DetachRemovesFirstEntry ==
  [][/\ (lastOp'[1] = "detach" /\ err' = "none" /\ lastOp'[3] \in Observers)
          => LET s == lastOp'[2]
                 o == lastOp'[3]
                 q == observers[s]
             IN  /\ \E i \in DOMAIN q :
                      /\ q[i] = o
                      /\ \A j \in 1..(i - 1) : q[j] # o
                      /\ observers'[s] = SubSeq(q, 1, i - 1) \o SubSeq(q, i + 1, Len(q))
                 /\ Occurrences(q, o) = 1 => o \notin Range(observers'[s])
                 /\ \A x \in Subjects \ {s} : observers'[x] = observers[x]
     /\ \A o \in Observers :
          (Notified(lastOp') /\ o \notin Range(observers[NotifiedSubject(lastOp')]))
            => \A i \in DOMAIN log' : log'[i][2] # o]_vars

\* C10's case: a detach of an observer that was attached twice.
C10_Witness ==
  /\ lastOp[1] = "detach" /\ err = "none"
  /\ lastOp[3] \in Observers
  /\ lastOp[3] \in Range(observers[lastOp[2]])

\* C11, as stated: attach of anything that is no Observer, None and other
\* falsy values included, fails with a contract error and leaves the
\* subject's observer list as it was.
C11_AttachRejectsNonObservers ==
  [][(lastOp'[1] = "attach" /\ lastOp'[3] \notin Observers)
       => /\ err' = "AssertionError"
          /\ observers' = observers]_vars

\* C12, as stated: detach of an observer that is not in the subject's
\* observer list fails with a "not found" error and leaves the list as it
\* was, whatever the argument.
C12_DetachOfAbsentFails ==
  [][(lastOp'[1] = "detach" /\ lastOp'[3] \notin Range(observers[lastOp'[2]]))
       => /\ err' = "ValueError"
          /\ observers' = observers]_vars

\* C13: mediator.update(s) for a Subject s that is no key of the mapping
\* fails with KeyError, calls no handler, and leaves the mapping and every
\* observer list as they were.
C13_UpdateOfUnregisteredFails ==
  [][(lastOp'[1] = "update" /\ lastOp'[3] \notin Keys(subjects))
       => /\ err' = "KeyError"
          /\ HandlerCalls(log') = <<>>
          /\ subjects' = subjects
          /\ observers' = observers]_vars

\* C13's case: update for a subject that is not registered, on a mediator
\* that has another subject registered.
C13_Witness ==
  /\ lastOp[1] = "update"
  /\ lastOp[3] \notin Keys(subjects)
  /\ Keys(subjects) # {}
  /\ err = "KeyError"

\* C14: register_subject with a handler that is not callable, or a subject
\* that is no Subject, fails the contract check before any state change: the
\* mapping gets no entry (it is as it was) and no observer list changes.
C14_RejectedRegistrationChangesNothing ==
  [][(/\ lastOp'[1] = "register_subject"
      /\ lastOp'[3] = "notSubject" \/ lastOp'[4] = "notCallable")
       => /\ err' = "AssertionError"
          /\ subjects' = subjects
          /\ lastOp'[3] \notin Keys(subjects) => lastOp'[3] \notin Keys(subjects')
          /\ observers' = observers]_vars

\* C14's case: a widget registered with a handler that is not callable, left
\* with no entry in the mapping.
C14_Witness ==
  /\ lastOp[1] = "register_subject"
  /\ lastOp[3] \in Widgets /\ lastOp[4] = "notCallable"
  /\ err = "AssertionError"
  /\ lastOp[3] \notin Keys(subjects)

\* C15, as stated: register_subject of a Subject (a Model included) with a
\* callable handler returns and records the handler; it fails only for a
\* subject that is no Subject or a handler that is not callable.
C15_RegisterAcceptsEverySubject ==
  (lastOp[1] = "register_subject" /\ lastOp[3] \in Subjects /\ lastOp[4] \in Handlers)
    => /\ err = "none"
       /\ lastOp[3] \in Keys(subjects)
       /\ Lookup(subjects, lastOp[3]) = lastOp[4]

\* C16, as stated: a register_subject that follows the mediator's teardown
\* fails and adds no entry to the mapping.
C16_RegisterAfterTeardownFails ==
  [][(/\ Teardown(lastOp) /\ err = "none"
      /\ lastOp'[1] = "register_subject" /\ lastOp'[2] = lastOp[2])
       => /\ err' # "none"
          /\ subjects' = subjects]_vars

\* C18: update called on a bare Observer raises NotImplementedError and
\* changes no state, and so does the construction of a tkViewManager whose
\* _CreateWidgets is the base class's.
C18_AbstractMethodsRaise ==
  [][lastOp'[1] \in {"Observer_update", "tkViewManager"}
       => /\ err' = "NotImplementedError"
          /\ HandlerCalls(log') = <<>>
          /\ observers' = observers
          /\ subjects' = subjects
          /\ count' = count]_vars

\* C18's case: update called on a bare Observer that is attached to the
\* subject it is given.
C18_Witness ==
  /\ lastOp[1] = "Observer_update"
  /\ lastOp[2] \in Range(observers[lastOp[3]])
  /\ err = "NotImplementedError"

\* C17, as stated: File|Save with a save path set opens that path for write,
\* calls the model's writeModelToFile on it and leaves the save path as it
\* was.
C17_SaveWritesToSavePath ==
  [][(lastOp'[1] = "onFileSave" /\ Len(savePath) > 0)
       => /\ err' = "none"
          /\ log' = << <<"open", savePath, "w">>,
                       <<"writeModelToFile", savePath, splitext_1(savePath)>> >>
          /\ savePath' = savePath]_vars

\* The observers whose update was called, in the order of the calls.
Called(l) == [i \in 1..Len(UpdateCalls(l)) |-> UpdateCalls(l)[i][2]]

IsPrefix(a, b) == Len(a) <= Len(b) /\ SubSeq(b, 1, Len(a)) = a

\* C19, as stated: whatever the handlers attach or detach, a notify calls
\* update on the entries attached when it started, in order, each once - all
\* of them when it returns, the first of them when an update raised - and on
\* no entry added meanwhile.
C19_NotifyCallsTheEntriesItStartedWith ==
  [][lastOp'[1] = "notify"
       => /\ IsPrefix(Called(log'), observers[lastOp'[2]])
          /\ err' = "none" => Called(log') = observers[lastOp'[2]]]_vars

\* C20, as stated: every notify returns (or raises) after finitely many
\* update calls, whatever the handlers do.
C20_NotifyReturns ==
  lastOp[1] = "notify" => err # "never_returns"

\* C21: teardown (_detach_from_subjects, also as onDestroy calls it) leaves
\* the mediator's mapping as it was - the same keys in the same order, each
\* with the same handler - whether it returns or a detach raises.
C21_TeardownKeepsMapping ==
  [][Teardown(lastOp') => subjects' = subjects]_vars

\* C21's case: a teardown that returned, the mapping still holding both
\* widgets, each with a handler of its own.
C21_Witness ==
  /\ lastOp[1] = "_detach_from_subjects" /\ err = "none"
  /\ Len(subjects) = 2
  /\ subjects[1][2] # subjects[2][2]
  /\ \A s \in Keys(subjects) : observers[s] = <<>>

\* C22, as stated: in the demo application, after n clicks of the button the
\* model's count is n, and the widget is started and its button reads 'Stop'
\* exactly when n is odd ('Start' otherwise).
C22_CountIsNumberOfClicks ==
  \A dw \in Keys(subjects) :
    /\ count = clicks[dw]
    /\ is_started[dw] <=> clicks[dw] % 2 = 1
    /\ lbl[dw] = IF clicks[dw] % 2 = 1 THEN "Stop" ELSE "Start"

\* C23, as stated: every tkApp constructed with menu_dict left out has the
\* File and Help commands bound to its own handlers, however many apps were
\* constructed before, and its construction changes nothing the construction
\* of another app reads.
C23_DefaultMenusAreOwn ==
  [][(lastOp'[1] = "tkApp" /\ lastOp'[3] = "default")
       => /\ menubar'[lastOp'[2]] = DefaultCommands(lastOp'[2])
          /\ menu_default' = menu_default]_vars

\* The observers whose update returned, in the order of the returns.
Returned(l) ==
  LET r == SelectSeq(l, LAMBDA e : e[1] = "return")
  IN  [i \in 1..Len(r) |-> r[i][2]]

\* C24: when an update raises during notify (of a subject, or of the model by
\* its count setter), notify is left by that error; the entries called are
\* the first of the list, in order, each once, up to the one that raised;
\* those before it have returned; no entry behind it is called; and no
\* observer list has changed.
C24_RaiseEndsNotify ==
  [][(Notified(lastOp') /\ err' # "none")
       => LET s == NotifiedSubject(lastOp')
              n == Len(Called(log'))
          IN  /\ n >= 1
              /\ Called(log') = SubSeq(observers[s], 1, n)
              /\ Returned(log') = SubSeq(observers[s], 1, n - 1)
              /\ log'[Len(log')][1] # "return"
              /\ observers' = observers]_vars

\* C24's case: a notify of a subject with two entries, left by the error of
\* the first, the second never called.
C24_Witness ==
  /\ lastOp[1] = "notify" /\ err # "none"
  /\ Len(observers[lastOp[2]]) = 2
  /\ Len(Called(log)) = 1

\* C25: the mapping holds one handler per subject. register_subject(s, h2)
\* for a subject that is a key already returns with the same keys, in the
\* same number, s now under h2 and every other key under the handler it had;
\* and a notify of a registered subject calls no handler but the one the
\* mapping holds for it.
C25_ReregisterReplaces ==
  [][/\ (/\ lastOp'[1] = "register_subject" /\ err' = "none"
         /\ lastOp'[3] \in Keys(subjects))
       => /\ Len(subjects') = Len(subjects)
          /\ Keys(subjects') = Keys(subjects)
          /\ Cardinality(Keys(subjects')) = Len(subjects')
          /\ Lookup(subjects', lastOp'[3]) = lastOp'[4]
          /\ \A k \in Keys(subjects) \ {lastOp'[3]} :
               Lookup(subjects', k) = Lookup(subjects, k)
     /\ (lastOp'[1] = "notify" /\ lastOp'[2] \in Keys(subjects))
       => \A i \in DOMAIN HandlerCalls(log') :
            HandlerCalls(log')[i][2] = Lookup(subjects, lastOp'[2])]_vars

\* C25's case: a widget that _CreateWidgets registered under
\* handle_demo_widget_update and that was registered again under
\* returns_none has notified, and that one handler was called, once.
C25_Witness ==
  /\ lastOp[1] = "notify" /\ err = "none"
  /\ lastOp[2] \in Keys(subjects)
  /\ Len(subjects) = 1
  /\ HandlerCalls(log) = << <<"handler", "returns_none", <<>> >> >>

====
